---- MODULE Spec2Model ----
(***************************************************************************)
(* Execution-payload boundary logic of the beacon chain                    *)
(* (beacon_node/beacon_chain/src/execution_payload.rs): PayloadNotifier    *)
(* and notify_new_payload, validate_merge_block,                           *)
(* validate_execution_payload_for_gossip, get_execution_payload and        *)
(* prepare_execution_payload, with the collaborators they call (execution  *)
(* engine, fork choice, slot clock, task executor) as environment.         *)
(***************************************************************************)
EXTENDS Integers, Sequences, FiniteSets, TLC

\* ---------------------------------------------------------------- bounds
\* Fork choice tracks the blocks with roots 1..MaxRoot, a linear chain.
MaxRoot == 3
\* Epochs range over 0..MaxEpoch.
MaxEpoch == 2
\* Slots range over 0..MaxSlot.
MaxSlot == 3

\* ----------------------------------------------------------------- types
Roots == 1 .. MaxRoot
\* ExecutionBlockHash; 0 is ExecutionBlockHash::zero(). The block with root r
\* carries the payload with block hash r; MaxRoot + 1 is a hash that no
\* tracked block has.
Hashes == 0 .. (MaxRoot + 1)
Epochs == 0 .. MaxEpoch
Slots == 0 .. MaxSlot
Timestamps == 0 .. MaxSlot
\* Randao mixes (Hash256).
Mixes == {0, 1}
\* Validator indices of proposers.
ProposerIndices == {0, 1}

\* EthSpec::slots_per_epoch()
slots_per_epoch == 2
\* Slot::epoch
epoch(slot) == slot \div slots_per_epoch

\* Option<T>: None is the empty sequence, Some(x) the one-element sequence.
None == << >>
Some(x) == << x >>
IsSome(o) == Len(o) = 1
Unwrap(o) == o[1]

\* Result<T, E>
Ok(v) == [tag |-> "Ok", val |-> v]
Err(e) == [tag |-> "Err", err |-> e]
IsOk(r) == r.tag = "Ok"
IsErr(r) == r.tag = "Err"

\* ExecutionPayload: the fields this module reads. The default payload has
\* every field zero.
Payloads == [parent_hash : Hashes, timestamp : Timestamps]
DefaultPayload == [parent_hash |-> 0, timestamp |-> 0]

\* BeaconBlock: body_payload is None for a block of a fork whose body has no
\* execution payload, Some(payload) otherwise.
Blocks == [slot : Slots, parent_root : Roots,
           body_payload : {None} \cup {Some(p) : p \in Payloads}]

\* block.execution_payload(): Err for a body without a payload.
execution_payload(block) ==
    IF IsSome(block.body_payload)
    THEN Ok(Unwrap(block.body_payload))
    ELSE Err([kind |-> "InconsistentFork"])

\* BeaconState: the fields this module reads. randao_mix is the mix the
\* state holds for its current epoch.
BeaconStates == [slot : Slots,
                 genesis_time : {0, 1},
                 latest_execution_payload_header_block_hash : Hashes,
                 randao_mix : Mixes]

\* BeaconState::current_epoch
current_epoch(state) == epoch(state.slot)

\* state_processing::compute_timestamp_at_slot, with one second per slot.
compute_timestamp_at_slot(state) == state.genesis_time + state.slot

\* BeaconState::get_randao_mix for the state's current epoch.
get_randao_mix(state) == state.randao_mix

\* state_processing::is_merge_transition_complete: the latest payload header
\* is not the default header.
is_merge_transition_complete(state) ==
    state.latest_execution_payload_header_block_hash # 0

\* state_processing::is_execution_enabled: the merge is complete in `state`,
\* or the body carries a non-default payload (the merge transition block).
is_execution_enabled(state, block) ==
    /\ IsSome(block.body_payload)
    /\ \/ is_merge_transition_complete(state)
       \/ Unwrap(block.body_payload) # DefaultPayload

\* state_processing::partially_verify_execution_payload: the local sanity
\* checks; once the merge is complete the payload must build on the state's
\* latest payload header.
partially_verify_execution_payload(state, payload) ==
    IF is_merge_transition_complete(state)
       /\ payload.parent_hash # state.latest_execution_payload_header_block_hash
    THEN Err([kind |-> "PerBlockProcessingError"])
    ELSE Ok(TRUE)

\* ExecutionStatus of a tracked block.
ExecutionStatus(tag, hash) == [tag |-> tag, hash |-> hash]

\* --------------------------------------------------------------- state
VARIABLES
    chain_spec,       \* chain.spec: terminal_block_hash and its activation epoch
    execution_layer,  \* chain.execution_layer is Some
    fork_choice,      \* root -> ExecutionStatus of the tracked block
    slot_clock,       \* chain.slot_clock
    task_executor,    \* chain.task_executor: "running" or "shutting_down"
    store,            \* chain.store: the block stored under the untracked root
    importer,         \* the import attempt: PayloadNotifier and its verification
    merge_call,       \* the validate_merge_block call
    gossip_call,      \* the validate_execution_payload_for_gossip call
    builder           \* the get_execution_payload / prepare_execution_payload task

vars == << chain_spec, execution_layer, fork_choice, slot_clock, task_executor,
           store, importer, merge_call, gossip_call, builder >>

\* The parts of the chain handle no operation of this module writes.
chain == << chain_spec, execution_layer, slot_clock, store >>

\* ----------------------------------------------------------- fork choice
\* The fork-choice states a chain can be in before any invalidation: the
\* blocks up to root m are pre-merge (Irrelevant, zero hash), those up to v
\* are Valid and the rest Optimistic.
ForkChoiceOf(m, v) ==
    [r \in Roots |->
        IF r <= m THEN ExecutionStatus("Irrelevant", 0)
        ELSE IF r <= v THEN ExecutionStatus("Valid", r)
        ELSE ExecutionStatus("Optimistic", r)]

FreshForkChoices ==
    {ForkChoiceOf(m, v) : m \in 0 .. MaxRoot, v \in 0 .. MaxRoot}

\* InvalidationOperation::InvalidateMany
InvalidateMany(head_block_root, always_invalidate_head, latest_valid_ancestor) ==
    [head_block_root |-> head_block_root,
     always_invalidate_head |-> always_invalidate_head,
     latest_valid_ancestor |-> latest_valid_ancestor]

\* The root at or below `head` whose block has execution hash `hash`, if any.
AncestorWithHash(fc, head, hash) ==
    {r \in 1 .. head : fc[r].hash = hash /\ hash # 0}

\* The roots an InvalidateMany command covers: the head and its ancestors
\* down to, but excluding, the latest valid ancestor. When the latest valid
\* ancestor is not an ancestor of the head, only the head is covered, and
\* only if always_invalidate_head is set.
InvalidatedSegment(fc, op) ==
    LET anc == AncestorWithHash(fc, op.head_block_root, op.latest_valid_ancestor)
    IN  IF anc # {}
        THEN {r \in Roots : r <= op.head_block_root /\ \A a \in anc : r > a}
        ELSE IF op.always_invalidate_head THEN {op.head_block_root} ELSE {}

\* BeaconChain::process_invalid_execution_payload applied to fork choice:
\* every Valid or Optimistic block of the segment becomes Invalid.
process_invalid_execution_payload(fc, op) ==
    [r \in Roots |->
        IF r \in InvalidatedSegment(fc, op) /\ fc[r].tag \in {"Valid", "Optimistic"}
        THEN ExecutionStatus("Invalid", fc[r].hash)
        ELSE fc[r]]

\* ------------------------------------------------------ execution engine
\* PayloadStatus, the engine's answer to notify_new_payload.
PayloadStatus ==
    {[tag |-> t, latest_valid_hash |-> 0] :
        t \in {"Valid", "Syncing", "Accepted", "InvalidTerminalBlock", "InvalidBlockHash"}}
    \cup {[tag |-> "Invalid", latest_valid_hash |-> h] : h \in Hashes}

\* Result<PayloadStatus, Error> of the engine call.
NewPayloadResponses ==
    {Ok(s) : s \in PayloadStatus} \cup {Err([kind |-> "EngineError"])}

\* --------------------------------------------------------- PayloadNotifier
\* The blocks and states an import attempt is given.
ImportBlocks == {b \in Blocks : b.slot = 0
                    /\ (IsSome(b.body_payload) => Unwrap(b.body_payload).timestamp = 0)}
ImportStates == {s \in BeaconStates :
                    s.slot = 0 /\ s.genesis_time = 0 /\ s.randao_mix = 0}

IdleImporter ==
    [pc |-> "idle", block |-> None, state |-> None,
     payload_verification_status |-> None,
     engine_calls |-> << >>, fc_calls |-> << >>,
     response |-> None, fc_result |-> None, result |-> None]

\* A variant that leaves the sanity checks to the consuming call.
new_without_checks(block, state) ==
    LET fresh == [IdleImporter EXCEPT !.block = Some(block), !.state = Some(state)]
    IN  IF is_execution_enabled(state, block)
        THEN [fresh EXCEPT !.pc = "constructed", !.payload_verification_status = None]
        ELSE [fresh EXCEPT !.pc = "constructed",
                           !.payload_verification_status = Some("Irrelevant")]

\* PayloadNotifier::new: the import attempt after construction. A failed
\* construction ends the attempt with its error and no notifier.
new(block, state) ==
    LET fresh == [IdleImporter EXCEPT !.block = Some(block), !.state = Some(state)]
    IN  IF is_execution_enabled(state, block)
        THEN LET payload == execution_payload(block)
                 checked == partially_verify_execution_payload(state, payload.val)
             IN  IF IsErr(payload)
                 THEN [fresh EXCEPT !.pc = "done", !.result = Some(Err(payload.err))]
                 ELSE IF IsErr(checked)
                 THEN [fresh EXCEPT !.pc = "done", !.result = Some(Err(checked.err))]
                 ELSE [fresh EXCEPT !.pc = "constructed",
                                    !.payload_verification_status = None]
        ELSE [fresh EXCEPT !.pc = "constructed",
                           !.payload_verification_status = Some("Irrelevant")]

PayloadNotifier_new(block, state) ==
    /\ importer.pc \in {"idle", "done"}
    /\ importer' = new(block, state)
    /\ UNCHANGED << chain, task_executor, fork_choice,
                    merge_call, gossip_call, builder >>

\* A variant that does not require the engine connection.
notify_new_payload_submit_unchecked(imp) ==
    LET payload == execution_payload(Unwrap(imp.block))
    IN  IF IsErr(payload)
        THEN [imp EXCEPT !.pc = "done", !.result = Some(Err(payload.err))]
        ELSE [imp EXCEPT !.pc = "await_engine",
                         !.engine_calls = Append(@, [op |-> "notify_new_payload",
                                                     payload |-> payload.val])]

\* notify_new_payload up to the engine call: the payload is read, the engine
\* connection is required, and the payload is submitted.
notify_new_payload_submit(imp) ==
    LET payload == execution_payload(Unwrap(imp.block))
    IN  IF IsErr(payload)
        THEN [imp EXCEPT !.pc = "done", !.result = Some(Err(payload.err))]
        ELSE IF ~execution_layer
        THEN [imp EXCEPT !.pc = "done",
                         !.result = Some(Err([kind |-> "NoExecutionConnection"]))]
        ELSE [imp EXCEPT !.pc = "await_engine",
                         !.engine_calls = Append(@, [op |-> "notify_new_payload",
                                                     payload |-> payload.val])]

\* A variant that ignores the precomputed status.
consume_always_submits(imp) == notify_new_payload_submit(imp)

\* PayloadNotifier::notify_new_payload (consuming): a precomputed status is
\* returned as it is, otherwise the payload goes to the engine.
consume(imp) ==
    IF IsSome(imp.payload_verification_status)
    THEN [imp EXCEPT !.pc = "done",
                     !.result = Some(Ok(Unwrap(imp.payload_verification_status)))]
    ELSE notify_new_payload_submit(imp)

PayloadNotifier_notify_new_payload ==
    /\ importer.pc = "constructed"
    /\ importer' = consume(importer)
    /\ UNCHANGED << chain, task_executor, fork_choice,
                    merge_call, gossip_call, builder >>

\* The rejection notify_new_payload reports for an engine status.
RejectedByExecutionEngine(status) ==
    Err([kind |-> "RejectedByExecutionEngine", status |-> status])

\* notify_new_payload: the classification of the engine's response.
notify_new_payload_classify(imp, response) ==
    LET block == Unwrap(imp.block)
        heard == [imp EXCEPT !.response = Some(response)]
    IN  IF IsErr(response)
        THEN [heard EXCEPT !.pc = "done",
                           !.result = Some(Err([kind |-> "RequestFailed"]))]
        ELSE CASE response.val.tag = "Valid" ->
                    [heard EXCEPT !.pc = "done", !.result = Some(Ok("Verified"))]
               [] response.val.tag \in {"Syncing", "Accepted"} ->
                    [heard EXCEPT !.pc = "done", !.result = Some(Ok("Optimistic"))]
               [] response.val.tag = "Invalid" ->
                    [heard EXCEPT !.pc = "await_fc",
                        !.fc_calls = Append(@,
                            InvalidateMany(block.parent_root, FALSE,
                                           response.val.latest_valid_hash))]
               [] response.val.tag \in {"InvalidTerminalBlock", "InvalidBlockHash"} ->
                    [heard EXCEPT !.pc = "done",
                        !.result = Some(RejectedByExecutionEngine(response.val))]

\* Variants of the response handling, each with one slip: Invalid handled
\* like InvalidBlockHash (no invalidation); InvalidTerminalBlock and
\* InvalidBlockHash handled like Invalid (the parent is invalidated);
\* Accepted handled like Valid.
NewPayloadResponse_skips_invalidation(response) ==
    /\ importer.pc = "await_engine"
    /\ importer' =
          IF IsOk(response) /\ response.val.tag = "Invalid"
          THEN [importer EXCEPT !.pc = "done", !.response = Some(response),
                                !.result = Some(RejectedByExecutionEngine(response.val))]
          ELSE notify_new_payload_classify(importer, response)
    /\ UNCHANGED << chain, task_executor, fork_choice,
                    merge_call, gossip_call, builder >>

NewPayloadResponse_always_invalidates(response) ==
    /\ importer.pc = "await_engine"
    /\ importer' =
          IF IsOk(response)
             /\ response.val.tag \in {"InvalidTerminalBlock", "InvalidBlockHash"}
          THEN [notify_new_payload_classify(importer,
                    Ok([tag |-> "Invalid", latest_valid_hash |-> 0]))
                EXCEPT !.response = Some(response)]
          ELSE notify_new_payload_classify(importer, response)
    /\ UNCHANGED << chain, task_executor, fork_choice,
                    merge_call, gossip_call, builder >>

NewPayloadResponse_accepted_is_verified(response) ==
    /\ importer.pc = "await_engine"
    /\ importer' =
          IF IsOk(response) /\ response.val.tag = "Accepted"
          THEN [notify_new_payload_classify(importer,
                    Ok([tag |-> "Valid", latest_valid_hash |-> 0]))
                EXCEPT !.response = Some(response)]
          ELSE notify_new_payload_classify(importer, response)
    /\ UNCHANGED << chain, task_executor, fork_choice,
                    merge_call, gossip_call, builder >>

\* A variant that records a Valid answer in fork choice, on the parent.
NewPayloadResponse_marks_parent_valid(response) ==
    /\ importer.pc = "await_engine"
    /\ importer' = notify_new_payload_classify(importer, response)
    /\ fork_choice' =
          IF IsOk(response) /\ response.val.tag = "Valid"
             /\ Unwrap(importer.block).parent_root \in DOMAIN fork_choice
          THEN [fork_choice EXCEPT ![Unwrap(importer.block).parent_root].tag = "Valid"]
          ELSE fork_choice
    /\ UNCHANGED << chain, task_executor, merge_call, gossip_call, builder >>

\* A variant that starts the invalidation and does not wait for it: the
\* rejection is returned while fork choice is as it was.
NewPayloadResponse_does_not_await_invalidation(response) ==
    /\ importer.pc = "await_engine"
    /\ importer' =
          IF IsOk(response) /\ response.val.tag = "Invalid"
          THEN [notify_new_payload_classify(importer, response) EXCEPT
                    !.pc = "done",
                    !.fc_result = Some(Ok(TRUE)),
                    !.result = Some(RejectedByExecutionEngine(response.val))]
          ELSE notify_new_payload_classify(importer, response)
    /\ UNCHANGED << chain, task_executor, fork_choice,
                    merge_call, gossip_call, builder >>

\* A variant that submits the payload again after a transport failure.
NewPayloadResponse_resubmits(response) ==
    /\ importer.pc = "await_engine"
    /\ importer' =
          IF IsErr(response) /\ Len(importer.engine_calls) < 2
          THEN [importer EXCEPT
                    !.engine_calls = Append(@, importer.engine_calls[1])]
          ELSE notify_new_payload_classify(importer, response)
    /\ UNCHANGED << chain, task_executor, fork_choice,
                    merge_call, gossip_call, builder >>

\* The engine answers the submitted payload.
NewPayloadResponse(response) ==
    /\ importer.pc = "await_engine"
    /\ importer' = notify_new_payload_classify(importer, response)
    /\ UNCHANGED << chain, task_executor, fork_choice,
                    merge_call, gossip_call, builder >>

\* The invalidation command of another import attempt, whose engine answered
\* Invalid{latest_valid_hash} for a block on `head_block_root`, runs on the
\* shared fork choice.
ConcurrentInvalidation(head_block_root, latest_valid_hash) ==
    /\ fork_choice' = process_invalid_execution_payload(fork_choice,
                          InvalidateMany(head_block_root, FALSE, latest_valid_hash))
    /\ fork_choice' # fork_choice
    /\ UNCHANGED << chain, task_executor, importer, merge_call, gossip_call, builder >>

\* A variant that undoes the marking when the invalidation fails: the
\* blocks of the segment are left Optimistic.
ProcessInvalidExecutionPayload_reverts_on_failure(ok) ==
    /\ importer.pc = "await_fc"
    /\ LET op == importer.fc_calls[Len(importer.fc_calls)]
       IN  IF ok
           THEN /\ fork_choice' = process_invalid_execution_payload(fork_choice, op)
                /\ importer' = [importer EXCEPT !.pc = "fc_returned",
                                                !.fc_result = Some(Ok(TRUE))]
           ELSE /\ fork_choice' =
                      [r \in Roots |->
                          IF r \in InvalidatedSegment(fork_choice, op)
                             /\ fork_choice[r].tag # "Irrelevant"
                          THEN ExecutionStatus("Optimistic", fork_choice[r].hash)
                          ELSE fork_choice[r]]
                /\ importer' = [importer EXCEPT !.pc = "fc_returned",
                        !.fc_result = Some(Err([kind |-> "BeaconChainError"]))]
    /\ UNCHANGED << chain, task_executor, merge_call, gossip_call, builder >>

\* Fork choice runs the invalidation command, or fails to; a failure may
\* come before or after the blocks were marked.
ProcessInvalidExecutionPayload(ok) ==
    /\ importer.pc = "await_fc"
    /\ LET op == importer.fc_calls[Len(importer.fc_calls)]
       IN  IF ok
           THEN /\ fork_choice' = process_invalid_execution_payload(fork_choice, op)
                /\ importer' = [importer EXCEPT !.pc = "fc_returned",
                                                !.fc_result = Some(Ok(TRUE))]
           ELSE /\ fork_choice' \in
                        {fork_choice, process_invalid_execution_payload(fork_choice, op)}
                /\ importer' = [importer EXCEPT !.pc = "fc_returned",
                        !.fc_result = Some(Err([kind |-> "BeaconChainError"]))]
    /\ UNCHANGED << chain, task_executor, merge_call, gossip_call, builder >>

\* A variant that drops the invalidation's own failure.
after_invalidation_ignores_failure(imp) ==
    [imp EXCEPT !.pc = "done",
        !.result = Some(RejectedByExecutionEngine(Unwrap(imp.response).val))]

\* notify_new_payload after the invalidation returned: its error is
\* propagated, otherwise the block is rejected with the engine's status.
notify_new_payload_after_invalidation(imp) ==
    LET fc_result == Unwrap(imp.fc_result)
    IN  IF IsErr(fc_result)
        THEN [imp EXCEPT !.pc = "done", !.result = Some(Err(fc_result.err))]
        ELSE [imp EXCEPT !.pc = "done",
                !.result = Some(RejectedByExecutionEngine(Unwrap(imp.response).val))]

InvalidationReturns ==
    /\ importer.pc = "fc_returned"
    /\ importer' = notify_new_payload_after_invalidation(importer)
    /\ UNCHANGED << chain, task_executor, fork_choice,
                    merge_call, gossip_call, builder >>

\* ------------------------------------------------- validate_merge_block
\* The blocks validate_merge_block is given.
MergeBlocks == {b \in Blocks : b.parent_root = 1
                    /\ (IsSome(b.body_payload) => Unwrap(b.body_payload).timestamp = 0)}

IdleMergeCall ==
    [pc |-> "idle", block |-> None, engine_calls |-> << >>,
     answer |-> None, result |-> None]

\* A variant that checks the terminal hash before the activation epoch.
validate_merge_block_hash_first(block) ==
    LET call == [IdleMergeCall EXCEPT !.block = Some(block)]
        payload == execution_payload(block)
    IN  IF IsErr(payload)
        THEN [call EXCEPT !.pc = "done", !.result = Some(Err(payload.err))]
        ELSE IF chain_spec.terminal_block_hash # 0
        THEN IF payload.val.parent_hash # chain_spec.terminal_block_hash
             THEN [call EXCEPT !.pc = "done",
                     !.result = Some(Err([kind |-> "InvalidTerminalBlockHash",
                        terminal_block_hash |-> chain_spec.terminal_block_hash,
                        payload_parent_hash |-> payload.val.parent_hash]))]
             ELSE IF epoch(block.slot) < chain_spec.terminal_block_hash_activation_epoch
             THEN [call EXCEPT !.pc = "done",
                     !.result = Some(Err([kind |-> "InvalidActivationEpoch",
                        activation_epoch |-> chain_spec.terminal_block_hash_activation_epoch,
                        epoch |-> epoch(block.slot)]))]
             ELSE [call EXCEPT !.pc = "done", !.result = Some(Ok(TRUE))]
        ELSE IF ~execution_layer
        THEN [call EXCEPT !.pc = "done",
                          !.result = Some(Err([kind |-> "NoExecutionConnection"]))]
        ELSE [call EXCEPT !.pc = "await_engine",
                !.engine_calls = Append(@, [op |-> "is_valid_terminal_pow_block_hash",
                                            hash |-> payload.val.parent_hash])]

\* validate_merge_block up to the engine query: the override branch is
\* decided locally, the other branch requires the engine connection and asks
\* it about the payload's parent hash.
validate_merge_block(block) ==
    LET call == [IdleMergeCall EXCEPT !.block = Some(block)]
        block_epoch == epoch(block.slot)
        payload == execution_payload(block)
    IN  IF IsErr(payload)
        THEN [call EXCEPT !.pc = "done", !.result = Some(Err(payload.err))]
        ELSE IF chain_spec.terminal_block_hash # 0
        THEN IF block_epoch < chain_spec.terminal_block_hash_activation_epoch
             THEN [call EXCEPT !.pc = "done",
                     !.result = Some(Err([kind |-> "InvalidActivationEpoch",
                        activation_epoch |-> chain_spec.terminal_block_hash_activation_epoch,
                        epoch |-> block_epoch]))]
             ELSE IF payload.val.parent_hash # chain_spec.terminal_block_hash
             THEN [call EXCEPT !.pc = "done",
                     !.result = Some(Err([kind |-> "InvalidTerminalBlockHash",
                        terminal_block_hash |-> chain_spec.terminal_block_hash,
                        payload_parent_hash |-> payload.val.parent_hash]))]
             ELSE [call EXCEPT !.pc = "done", !.result = Some(Ok(TRUE))]
        ELSE IF ~execution_layer
        THEN [call EXCEPT !.pc = "done",
                          !.result = Some(Err([kind |-> "NoExecutionConnection"]))]
        ELSE [call EXCEPT !.pc = "await_engine",
                !.engine_calls = Append(@, [op |-> "is_valid_terminal_pow_block_hash",
                                            hash |-> payload.val.parent_hash])]

ValidateMergeBlock(block) ==
    /\ merge_call.pc \in {"idle", "done"}
    /\ merge_call' = validate_merge_block(block)
    /\ UNCHANGED << chain, task_executor, fork_choice, importer, gossip_call, builder >>

\* Result<Option<bool>, Error> of is_valid_terminal_pow_block_hash.
TerminalPowAnswers ==
    {Ok(Some(TRUE)), Ok(Some(FALSE)), Ok(None), Err([kind |-> "EngineError"])}

\* A variant that rejects the block when the engine cannot tell.
validate_merge_block_rejects_unknown(call, answer) ==
    LET parent_hash == execution_payload(Unwrap(call.block)).val.parent_hash
        heard == [call EXCEPT !.pc = "done", !.answer = Some(answer)]
    IN  IF IsOk(answer) /\ answer.val = Some(TRUE)
        THEN [heard EXCEPT !.result = Some(Ok(TRUE))]
        ELSE IF IsOk(answer)
        THEN [heard EXCEPT !.result = Some(Err([kind |-> "InvalidTerminalPoWBlock",
                                                 parent_hash |-> parent_hash]))]
        ELSE [heard EXCEPT !.result = Some(Err([kind |-> "RequestFailed"]))]

\* validate_merge_block from the engine's answer on.
validate_merge_block_answered(call, answer) ==
    LET parent_hash == execution_payload(Unwrap(call.block)).val.parent_hash
        heard == [call EXCEPT !.pc = "done", !.answer = Some(answer)]
    IN  IF IsErr(answer)
        THEN [heard EXCEPT !.result = Some(Err([kind |-> "RequestFailed"]))]
        ELSE IF answer.val = Some(TRUE)
        THEN [heard EXCEPT !.result = Some(Ok(TRUE))]
        ELSE IF answer.val = Some(FALSE)
        THEN [heard EXCEPT !.result = Some(Err([kind |-> "InvalidTerminalPoWBlock",
                                                 parent_hash |-> parent_hash]))]
        ELSE [heard EXCEPT !.result = Some(Ok(TRUE))]

TerminalPowAnswer(answer) ==
    /\ merge_call.pc = "await_engine"
    /\ merge_call' = validate_merge_block_answered(merge_call, answer)
    /\ UNCHANGED << chain, task_executor, fork_choice, importer, gossip_call, builder >>

\* -------------------------------- validate_execution_payload_for_gossip
\* The blocks gossip validation is given.
GossipBlocks == {b \in Blocks :
                    IsSome(b.body_payload) => Unwrap(b.body_payload).parent_hash \in {0, 1}}

IdleGossipCall ==
    [pc |-> "idle", parent_block |-> None, block |-> None,
     clock_reads |-> << >>, result |-> None]

\* ForkChoice::get_block: the ProtoBlock of a tracked root.
get_block(fc, root) ==
    IF root \in Roots
    THEN Some([root |-> root, execution_status |-> fc[root]])
    ELSE None

\* SlotClock::start_of: the Duration (in half seconds) from the epoch to the
\* start of `slot`, None for a slot before genesis. A slot lasts one second.
start_of(clock, slot) ==
    IF slot < clock.genesis_slot
    THEN None
    ELSE Some(clock.genesis_duration + 2 * (slot - clock.genesis_slot))

\* Duration::as_secs
as_secs(duration) == duration \div 2

\* A variant that takes an Irrelevant parent for a merged chain too and does
\* not reject on an Invalid parent.
gossip_ignores_parent_status(parent_block, block) ==
    LET payload == execution_payload(block)
        start == start_of(slot_clock, block.slot)
    IN  IF IsErr(payload)
        THEN [clock_reads |-> << >>, result |-> Ok(TRUE)]
        ELSE IF ~IsSome(start)
        THEN [clock_reads |-> << block.slot >>,
              result |-> Err([kind |-> "UnableToComputeTimeAtSlot"])]
        ELSE IF payload.val.timestamp # as_secs(Unwrap(start))
        THEN [clock_reads |-> << block.slot >>,
              result |-> Err([kind |-> "InvalidPayloadTimestamp",
                              expected |-> as_secs(Unwrap(start)),
                              found |-> payload.val.timestamp])]
        ELSE [clock_reads |-> << block.slot >>, result |-> Ok(TRUE)]

\* A variant that compares the timestamp with the Duration itself.
gossip_compares_duration(parent_block, block) ==
    LET payload == execution_payload(block)
        start == start_of(slot_clock, block.slot)
    IN  IF IsErr(payload)
        THEN [clock_reads |-> << >>, result |-> Ok(TRUE)]
        ELSE IF parent_block.execution_status.tag = "Invalid"
        THEN [clock_reads |-> << >>,
              result |-> Err([kind |-> "ParentExecutionPayloadInvalid",
                              parent_root |-> parent_block.root])]
        ELSE IF parent_block.execution_status.tag \in {"Valid", "Optimistic"}
                \/ payload.val # DefaultPayload
        THEN IF ~IsSome(start)
             THEN [clock_reads |-> << block.slot >>,
                   result |-> Err([kind |-> "UnableToComputeTimeAtSlot"])]
             ELSE IF payload.val.timestamp # Unwrap(start)
             THEN [clock_reads |-> << block.slot >>,
                   result |-> Err([kind |-> "InvalidPayloadTimestamp",
                                   expected |-> Unwrap(start),
                                   found |-> payload.val.timestamp])]
             ELSE [clock_reads |-> << block.slot >>, result |-> Ok(TRUE)]
        ELSE [clock_reads |-> << >>, result |-> Ok(TRUE)]

\* validate_execution_payload_for_gossip: the slots it asked the slot clock
\* about, and its result.
validate_execution_payload_for_gossip(parent_block, block) ==
    LET payload == execution_payload(block)
    IN  IF IsErr(payload)
        THEN [clock_reads |-> << >>, result |-> Ok(TRUE)]
        ELSE IF parent_block.execution_status.tag = "Invalid"
        THEN [clock_reads |-> << >>,
              result |-> Err([kind |-> "ParentExecutionPayloadInvalid",
                              parent_root |-> parent_block.root])]
        ELSE LET merge_transition_complete ==
                    parent_block.execution_status.tag \in {"Valid", "Optimistic"}
             IN  IF merge_transition_complete \/ payload.val # DefaultPayload
                 THEN LET start == start_of(slot_clock, block.slot)
                          expected_timestamp == as_secs(Unwrap(start))
                      IN  IF ~IsSome(start)
                          THEN [clock_reads |-> << block.slot >>,
                                result |-> Err([kind |-> "UnableToComputeTimeAtSlot"])]
                          ELSE IF payload.val.timestamp # expected_timestamp
                          THEN [clock_reads |-> << block.slot >>,
                                result |-> Err([kind |-> "InvalidPayloadTimestamp",
                                                expected |-> expected_timestamp,
                                                found |-> payload.val.timestamp])]
                          ELSE [clock_reads |-> << block.slot >>, result |-> Ok(TRUE)]
                 ELSE [clock_reads |-> << >>, result |-> Ok(TRUE)]

\* Gossip verification looks the block's parent up in fork choice and
\* validates the block against it.
GossipValidate(block) ==
    /\ LET parent_block == Unwrap(get_block(fork_choice, block.parent_root))
           outcome == validate_execution_payload_for_gossip(parent_block, block)
       IN  gossip_call' = [pc |-> "done", parent_block |-> Some(parent_block),
                           block |-> Some(block),
                           clock_reads |-> outcome.clock_reads,
                           result |-> Some(outcome.result)]
    /\ UNCHANGED << chain, task_executor, fork_choice, importer, merge_call, builder >>

\* The same in two steps, as concurrent callers see it: the caller reads the
\* parent's ProtoBlock from fork choice, and validation later runs on that
\* copy, whatever fork choice has become.
GossipLookup(block) ==
    /\ gossip_call.pc \in {"idle", "done"}
    /\ gossip_call' = [IdleGossipCall EXCEPT
                          !.pc = "looked_up",
                          !.parent_block = get_block(fork_choice, block.parent_root),
                          !.block = Some(block)]
    /\ UNCHANGED << chain, task_executor, fork_choice, importer, merge_call, builder >>

GossipCheck ==
    /\ gossip_call.pc = "looked_up"
    /\ LET outcome == validate_execution_payload_for_gossip(
                          Unwrap(gossip_call.parent_block), Unwrap(gossip_call.block))
       IN  gossip_call' = [gossip_call EXCEPT
                              !.pc = "done",
                              !.clock_reads = outcome.clock_reads,
                              !.result = Some(outcome.result)]
    /\ UNCHANGED << chain, task_executor, fork_choice, importer, merge_call, builder >>

\* ------------------------- get_execution_payload, prepare_execution_payload
\* The finalized checkpoint's root: a tracked root, or 0 for a block fork
\* choice no longer tracks.
FinalizedRoots == 0 .. MaxRoot
Checkpoints == [root : FinalizedRoots]

\* The states the proposer builds on.
BuilderStates == {s \in BeaconStates :
                    /\ s.slot \in {0, MaxSlot}
                    /\ s.latest_execution_payload_header_block_hash \in {0, 1}
                    /\ s.randao_mix = s.genesis_time}

\* What chain.store.get_blinded_block gives for the untracked root: a read
\* error, no block, a block without a payload, or a block with one.
StoreStates ==
    {Err([kind |-> "StoreError"]), Ok(None), Ok(Some([payload_block_hash |-> None]))}
    \cup {Ok(Some([payload_block_hash |-> Some(h)])) : h \in {MaxRoot + 1}}

\* A variant that knows the hash of Valid blocks only.
block_hash_of_valid_only(execution_status) ==
    IF execution_status.tag = "Valid" THEN Some(execution_status.hash) ELSE None

\* ExecutionStatus::block_hash
block_hash(execution_status) ==
    IF execution_status.tag = "Irrelevant" THEN None ELSE Some(execution_status.hash)

IdleBuilder ==
    [pc |-> "idle", args |-> None, handle |-> FALSE,
     engine_calls |-> << >>, fc_lookups |-> << >>, store_lookups |-> << >>,
     terminal_pow |-> None, parent_hash |-> None, built |-> None,
     result |-> None]

\* A variant that does not notice that nothing was spawned.
get_execution_payload_ignores_shutdown(state, finalized_checkpoint, proposer_index) ==
    [IdleBuilder EXCEPT
        !.pc = "spawned", !.handle = TRUE,
        !.args = Some([current_epoch |-> current_epoch(state),
                       is_merge_transition_complete |-> is_merge_transition_complete(state),
                       timestamp |-> compute_timestamp_at_slot(state),
                       random |-> get_randao_mix(state),
                       finalized_checkpoint |-> finalized_checkpoint,
                       proposer_index |-> proposer_index,
                       latest_execution_payload_header_block_hash |->
                          state.latest_execution_payload_header_block_hash])]

\* get_execution_payload: the values are taken from `state`, then the task
\* is spawned; a task executor that is shutting down spawns nothing.
get_execution_payload(state, finalized_checkpoint, proposer_index) ==
    LET args == [current_epoch |-> current_epoch(state),
                 is_merge_transition_complete |-> is_merge_transition_complete(state),
                 timestamp |-> compute_timestamp_at_slot(state),
                 random |-> get_randao_mix(state),
                 finalized_checkpoint |-> finalized_checkpoint,
                 proposer_index |-> proposer_index,
                 latest_execution_payload_header_block_hash |->
                    state.latest_execution_payload_header_block_hash]
        called == [IdleBuilder EXCEPT !.args = Some(args)]
    IN  IF task_executor = "shutting_down"
        THEN [called EXCEPT !.pc = "done",
                            !.result = Some(Err([kind |-> "ShuttingDown"]))]
        ELSE [called EXCEPT !.pc = "spawned", !.handle = TRUE]

GetExecutionPayload(state, finalized_checkpoint, proposer_index) ==
    /\ builder.pc \in {"idle", "done"}
    /\ builder' = get_execution_payload(state, finalized_checkpoint, proposer_index)
    /\ UNCHANGED << chain, task_executor, fork_choice, importer, merge_call,
                    gossip_call >>

\* The task executor starts to shut down.
Shutdown ==
    /\ task_executor = "running"
    /\ task_executor' = "shutting_down"
    /\ UNCHANGED << chain, fork_choice, importer, merge_call, gossip_call, builder >>

\* A variant without the early exit for an override that is not yet active.
prepare_execution_payload_no_early_exit(b) ==
    LET args == Unwrap(b.args)
    IN  IF ~execution_layer
        THEN [b EXCEPT !.pc = "done",
                       !.result = Some(Err([kind |-> "ExecutionLayerMissing"]))]
        ELSE IF ~args.is_merge_transition_complete
        THEN [b EXCEPT !.pc = "await_terminal_pow",
                !.engine_calls = Append(@, [op |-> "get_terminal_pow_block_hash"])]
        ELSE [b EXCEPT !.pc = "await_finalized",
                !.parent_hash = Some(args.latest_execution_payload_header_block_hash)]

\* A variant that asks for the terminal block after the merge too.
prepare_execution_payload_always_queries(b) ==
    LET args == Unwrap(b.args)
    IN  IF ~execution_layer
        THEN [b EXCEPT !.pc = "done",
                       !.result = Some(Err([kind |-> "ExecutionLayerMissing"]))]
        ELSE IF chain_spec.terminal_block_hash # 0
                /\ args.current_epoch < chain_spec.terminal_block_hash_activation_epoch
        THEN [b EXCEPT !.pc = "done", !.result = Some(Ok(DefaultPayload))]
        ELSE [b EXCEPT !.pc = "await_terminal_pow",
                !.engine_calls = Append(@, [op |-> "get_terminal_pow_block_hash"])]

\* prepare_execution_payload up to its first suspension: the engine
\* connection is required; before the merge an override that is not yet
\* active gives the default payload at once, otherwise the engine is asked
\* for the terminal block; after the merge the parent is the latest header.
prepare_execution_payload(b) ==
    LET args == Unwrap(b.args)
        is_terminal_block_hash_set == chain_spec.terminal_block_hash # 0
        is_activation_epoch_reached ==
            args.current_epoch >= chain_spec.terminal_block_hash_activation_epoch
    IN  IF ~execution_layer
        THEN [b EXCEPT !.pc = "done",
                       !.result = Some(Err([kind |-> "ExecutionLayerMissing"]))]
        ELSE IF ~args.is_merge_transition_complete
        THEN IF is_terminal_block_hash_set /\ ~is_activation_epoch_reached
             THEN [b EXCEPT !.pc = "done", !.result = Some(Ok(DefaultPayload))]
             ELSE [b EXCEPT !.pc = "await_terminal_pow",
                     !.engine_calls = Append(@, [op |-> "get_terminal_pow_block_hash"])]
        ELSE [b EXCEPT !.pc = "await_finalized",
                !.parent_hash = Some(args.latest_execution_payload_header_block_hash)]

PrepareExecutionPayload ==
    /\ builder.pc = "spawned"
    /\ builder' = prepare_execution_payload(builder)
    /\ UNCHANGED << chain, task_executor, fork_choice, importer, merge_call,
                    gossip_call >>

\* Result<Option<ExecutionBlockHash>, Error> of get_terminal_pow_block_hash.
TerminalPowBlockHashAnswers ==
    {Ok(None), Err([kind |-> "EngineError"])} \cup {Ok(Some(h)) : h \in {1, 2}}

\* A variant that builds on the zero hash when no terminal block is known.
prepare_execution_payload_terminal_builds_on_zero(b, answer) ==
    LET heard == [b EXCEPT !.terminal_pow = Some(answer)]
    IN  IF IsErr(answer)
        THEN [heard EXCEPT !.pc = "done",
                !.result = Some(Err([kind |-> "TerminalPoWBlockLookupFailed"]))]
        ELSE [heard EXCEPT !.pc = "await_finalized",
                !.parent_hash = Some(IF IsSome(answer.val) THEN Unwrap(answer.val) ELSE 0)]

\* prepare_execution_payload from the terminal block answer on.
prepare_execution_payload_terminal(b, answer) ==
    LET heard == [b EXCEPT !.terminal_pow = Some(answer)]
    IN  IF IsErr(answer)
        THEN [heard EXCEPT !.pc = "done",
                !.result = Some(Err([kind |-> "TerminalPoWBlockLookupFailed"]))]
        ELSE IF IsSome(answer.val)
        THEN [heard EXCEPT !.pc = "await_finalized",
                           !.parent_hash = Some(Unwrap(answer.val))]
        ELSE [heard EXCEPT !.pc = "done", !.result = Some(Ok(DefaultPayload))]

TerminalPowBlockHashAnswer(answer) ==
    /\ builder.pc = "await_terminal_pow"
    /\ builder' = prepare_execution_payload_terminal(builder, answer)
    /\ UNCHANGED << chain, task_executor, fork_choice, importer, merge_call,
                    gossip_call >>

\* prepare_execution_payload from the fork-choice lookup of the finalized
\* block to the get_payload request. `looked_up` is false when the blocking
\* task that reads fork choice fails.
prepare_execution_payload_finalized(b, looked_up) ==
    LET args == Unwrap(b.args)
        root == args.finalized_checkpoint.root
        finalized_proto_block == get_block(fork_choice, root)
        asked == [b EXCEPT !.fc_lookups = Append(@, root)]
        request(from, finalized_block_hash) ==
            [from EXCEPT !.pc = "await_get_payload",
                !.engine_calls = Append(@,
                    [op |-> "get_payload",
                     parent_hash |-> Unwrap(b.parent_hash),
                     timestamp |-> args.timestamp,
                     random |-> args.random,
                     finalized_block_hash |->
                        IF IsSome(finalized_block_hash)
                        THEN Unwrap(finalized_block_hash) ELSE 0,
                     proposer_index |-> args.proposer_index])]
    IN  IF ~looked_up
        THEN [b EXCEPT !.pc = "done", !.result = Some(Err([kind |-> "BeaconChain"]))]
        ELSE IF IsSome(finalized_proto_block)
        THEN request(asked, block_hash(Unwrap(finalized_proto_block).execution_status))
        ELSE LET read == [asked EXCEPT !.store_lookups = Append(@, root)]
             IN  IF IsErr(store)
                 THEN [read EXCEPT !.pc = "done",
                         !.result = Some(Err([kind |-> "FailedToReadFinalizedBlock"]))]
                 ELSE IF ~IsSome(store.val)
                 THEN [read EXCEPT !.pc = "done",
                         !.result = Some(Err([kind |-> "MissingFinalizedBlock",
                                              root |-> root]))]
                 ELSE request(read, Unwrap(store.val).payload_block_hash)

FinalizedLookup(looked_up) ==
    /\ builder.pc = "await_finalized"
    /\ builder' = prepare_execution_payload_finalized(builder, looked_up)
    /\ UNCHANGED << chain, task_executor, fork_choice, importer, merge_call,
                    gossip_call >>

\* The engine's answer to get_payload: the payload built for the request, or
\* an error.
GetPayloadAnswers(call) ==
    {Ok([parent_hash |-> call.parent_hash, timestamp |-> call.timestamp]),
     Err([kind |-> "EngineError"])}

\* prepare_execution_payload from the get_payload answer on.
prepare_execution_payload_built(b, answer) ==
    LET heard == [b EXCEPT !.built = Some(answer)]
    IN  IF IsErr(answer)
        THEN [heard EXCEPT !.pc = "done",
                           !.result = Some(Err([kind |-> "GetPayloadFailed"]))]
        ELSE [heard EXCEPT !.pc = "done", !.result = Some(Ok(answer.val))]

GetPayloadAnswer ==
    /\ builder.pc = "await_get_payload"
    /\ \E answer \in GetPayloadAnswers(builder.engine_calls[Len(builder.engine_calls)]) :
            builder' = prepare_execution_payload_built(builder, answer)
    /\ UNCHANGED << chain, task_executor, fork_choice, importer, merge_call,
                    gossip_call >>

\* ------------------------------------------------------- specifications
NoOverride == [terminal_block_hash |-> 0, terminal_block_hash_activation_epoch |-> 0]

\* chain.spec with no override, or with an override terminal block hash and
\* its activation epoch.
ChainSpecs ==
    {NoOverride}
    \cup [terminal_block_hash : {1, 2}, terminal_block_hash_activation_epoch : Epochs]

GenesisClock == [genesis_slot |-> 0, genesis_duration |-> 0]

\* Slot clocks: the genesis slot and the time of genesis, in half seconds.
SlotClocks == [genesis_slot : {0, 1}, genesis_duration : 0 .. 3]

\* A chain with a pre-merge, a Valid and an Optimistic block, before and
\* after the engine found the blocks above the Valid one invalid.
MergedForkChoice == ForkChoiceOf(1, 2)
ForkChoices ==
    {MergedForkChoice,
     process_invalid_execution_payload(MergedForkChoice,
                                       InvalidateMany(MaxRoot, FALSE, 2))}

\* Every component idle.
Idle ==
    /\ importer = IdleImporter
    /\ merge_call = IdleMergeCall
    /\ gossip_call = IdleGossipCall
    /\ builder = IdleBuilder

\* Block import: PayloadNotifier and notify_new_payload against the engine
\* and fork choice.
Init ==
    /\ chain_spec = NoOverride
    /\ execution_layer \in BOOLEAN
    /\ fork_choice \in FreshForkChoices
    /\ slot_clock = GenesisClock
    /\ task_executor = "running"
    /\ store = Ok(None)
    /\ Idle

Next ==
    \/ \E block \in ImportBlocks, state \in ImportStates :
            PayloadNotifier_new(block, state)
    \/ PayloadNotifier_notify_new_payload
    \/ \E response \in NewPayloadResponses : NewPayloadResponse(response)
    \/ \E ok \in BOOLEAN : ProcessInvalidExecutionPayload(ok)
    \/ InvalidationReturns

Spec == Init /\ [][Next]_vars

\* The merge transition check.
InitMerge ==
    /\ chain_spec \in ChainSpecs
    /\ execution_layer \in BOOLEAN
    /\ fork_choice \in {ForkChoiceOf(1, 1), ForkChoiceOf(MaxRoot, MaxRoot)}
    /\ slot_clock = GenesisClock
    /\ task_executor = "running"
    /\ store = Ok(None)
    /\ Idle

NextMerge ==
    \/ \E block \in MergeBlocks : ValidateMergeBlock(block)
    \/ \E answer \in TerminalPowAnswers : TerminalPowAnswer(answer)

SpecMerge == InitMerge /\ [][NextMerge]_vars

\* Gossip validation.
InitGossip ==
    /\ chain_spec = NoOverride
    /\ execution_layer = TRUE
    /\ fork_choice \in ForkChoices
    /\ slot_clock \in SlotClocks
    /\ task_executor = "running"
    /\ store = Ok(None)
    /\ Idle

NextGossip == \E block \in GossipBlocks : GossipValidate(block)

SpecGossip == InitGossip /\ [][NextGossip]_vars

\* Payload production.
InitBuilder ==
    /\ chain_spec \in {c \in ChainSpecs : c.terminal_block_hash \in {0, 1}}
    /\ execution_layer \in BOOLEAN
    /\ fork_choice = MergedForkChoice
    /\ slot_clock = GenesisClock
    /\ task_executor = "running"
    /\ store \in StoreStates
    /\ Idle

NextBuilder ==
    \/ \E state \in BuilderStates, finalized_checkpoint \in Checkpoints,
          proposer_index \in ProposerIndices :
            GetExecutionPayload(state, finalized_checkpoint, proposer_index)
    \/ Shutdown
    \/ PrepareExecutionPayload
    \/ \E answer \in TerminalPowBlockHashAnswers : TerminalPowBlockHashAnswer(answer)
    \/ \E looked_up \in BOOLEAN : FinalizedLookup(looked_up)
    \/ GetPayloadAnswer

SpecBuilder == InitBuilder /\ [][NextBuilder]_vars

\* Repeated verification: every block goes the whole way of a fresh
\* PayloadNotifier and the engine answers Valid each time.
InitRepeat ==
    /\ chain_spec = NoOverride
    /\ execution_layer = TRUE
    /\ fork_choice \in FreshForkChoices
    /\ slot_clock = GenesisClock
    /\ task_executor = "running"
    /\ store = Ok(None)
    /\ Idle

NextRepeat ==
    \/ \E block \in ImportBlocks, state \in ImportStates :
            /\ is_execution_enabled(state, block)
            /\ IsOk(execution_payload(block))
            /\ IsOk(partially_verify_execution_payload(state,
                                                       execution_payload(block).val))
            /\ PayloadNotifier_new(block, state)
    \/ PayloadNotifier_notify_new_payload
    \/ NewPayloadResponse(Ok([tag |-> "Valid", latest_valid_hash |-> 0]))

SpecRepeat == InitRepeat /\ [][NextRepeat]_vars

\* A node without an engine connection: block import and the merge
\* transition check, interleaved.
InitNoEngine ==
    /\ chain_spec \in {NoOverride,
                       [terminal_block_hash |-> 1,
                        terminal_block_hash_activation_epoch |-> 0]}
    /\ execution_layer = FALSE
    /\ fork_choice \in ForkChoices
    /\ slot_clock = GenesisClock
    /\ task_executor = "running"
    /\ store = Ok(None)
    /\ Idle

NextNoEngine ==
    \/ \E block \in ImportBlocks, state \in ImportStates :
            /\ block.parent_root = MaxRoot
            /\ PayloadNotifier_new(block, state)
    \/ PayloadNotifier_notify_new_payload
    \/ \E block \in MergeBlocks :
            /\ block.slot \in {0, MaxSlot}
            /\ ValidateMergeBlock(block)

SpecNoEngine == InitNoEngine /\ [][NextNoEngine]_vars

\* The operations of the whole file, interleaved on one chain: block
\* import, the merge transition check, gossip validation and payload
\* production, each on a few inputs.
CoreImports ==
    {bs \in ImportBlocks \X ImportStates :
        /\ bs[1].parent_root \in {MaxRoot - 1, MaxRoot}
        /\ IsSome(bs[1].body_payload)
        /\ Unwrap(bs[1].body_payload).parent_hash = 1
        /\ bs[2].latest_execution_payload_header_block_hash = 1}
CoreResponses ==
    {r \in NewPayloadResponses :
        IsOk(r) /\ r.val.tag = "Invalid" =>
            r.val.latest_valid_hash \in {0, 1, MaxRoot - 1}}
CoreMergeBlocks ==
    {b \in MergeBlocks : b.slot = 0 /\ IsSome(b.body_payload)
                            /\ Unwrap(b.body_payload).parent_hash = 1}
CoreGossipBlocks ==
    {b \in GossipBlocks : b.slot = 1 /\ IsSome(b.body_payload)
                             /\ Unwrap(b.body_payload) = [parent_hash |-> 1, timestamp |-> 1]}
CoreBuilderStates ==
    {s \in BuilderStates : s.slot = 0 /\ s.genesis_time = 0}

InitCore ==
    /\ chain_spec = NoOverride
    /\ execution_layer = TRUE
    /\ fork_choice \in {MergedForkChoice, ForkChoiceOf(0, MaxRoot - 1)}
    /\ slot_clock = GenesisClock
    /\ task_executor = "running"
    /\ store = Ok(None)
    /\ Idle

NextCore ==
    \/ \E bs \in CoreImports : PayloadNotifier_new(bs[1], bs[2])
    \/ PayloadNotifier_notify_new_payload
    \/ \E response \in CoreResponses : NewPayloadResponse(response)
    \/ \E ok \in BOOLEAN : ProcessInvalidExecutionPayload(ok)
    \/ InvalidationReturns
    \/ \E block \in CoreMergeBlocks : ValidateMergeBlock(block)
    \/ \E answer \in TerminalPowAnswers : TerminalPowAnswer(answer)
    \/ \E block \in CoreGossipBlocks : GossipValidate(block)
    \/ \E state \in CoreBuilderStates :
            GetExecutionPayload(state, [root |-> MaxRoot], 0)
    \/ PrepareExecutionPayload
    \/ \E answer \in TerminalPowBlockHashAnswers : TerminalPowBlockHashAnswer(answer)
    \/ FinalizedLookup(TRUE)
    \/ GetPayloadAnswer

SpecCore == InitCore /\ [][NextCore]_vars

\* Concurrent block imports and gossip validations on one fork choice.
ConcGossipBlocks ==
    {b \in GossipBlocks : b.slot = 1
        /\ (IsSome(b.body_payload) =>
                Unwrap(b.body_payload) = [parent_hash |-> 1, timestamp |-> 1])}

InitConc ==
    /\ chain_spec = NoOverride
    /\ execution_layer = TRUE
    /\ fork_choice \in {MergedForkChoice, ForkChoiceOf(0, MaxRoot - 1)}
    /\ slot_clock = GenesisClock
    /\ task_executor = "running"
    /\ store = Ok(None)
    /\ Idle

NextConc ==
    \/ \E bs \in CoreImports : PayloadNotifier_new(bs[1], bs[2])
    \/ PayloadNotifier_notify_new_payload
    \/ \E response \in NewPayloadResponses : NewPayloadResponse(response)
    \/ \E ok \in BOOLEAN : ProcessInvalidExecutionPayload(ok)
    \/ InvalidationReturns
    \/ \E head_block_root \in Roots, latest_valid_hash \in Hashes :
            ConcurrentInvalidation(head_block_root, latest_valid_hash)
    \/ \E block \in ConcGossipBlocks : GossipLookup(block)
    \/ GossipCheck

SpecConc == InitConc /\ [][NextConc]_vars

\* ------------------------------------------------- properties: block import
\* The engine's answer to the current import attempt, once it has arrived.
Responded(tags) ==
    /\ IsSome(importer.response)
    /\ IsOk(Unwrap(importer.response))
    /\ Unwrap(importer.response).val.tag \in tags

EngineStatus == Unwrap(importer.response).val
Observed == importer.pc = "done"
Result == Unwrap(importer.result)

\* The command notify_new_payload sends for the engine's Invalid{H}.
C1_InvalidCommand ==
    InvalidateMany(Unwrap(importer.block).parent_root, FALSE,
                   EngineStatus.latest_valid_hash)

\* C1 as stated: when the engine answers Invalid{H}, fork choice is sent
\* exactly one command, InvalidateMany{head_block_root = block.parent_root,
\* always_invalidate_head = false, latest_valid_ancestor = H}, the command
\* has returned before the caller observes the result, and that result is
\* RejectedByExecutionEngine carrying Invalid{H}.
C1_Original ==
    Responded({"Invalid"}) =>
        /\ importer.fc_calls = << C1_InvalidCommand >>
        /\ Observed =>
              /\ IsSome(importer.fc_result)
              /\ Result = RejectedByExecutionEngine(EngineStatus)

\* C1 (amended): when the engine answers Invalid{H}, fork choice is sent
\* exactly one command, InvalidateMany{head_block_root = block.parent_root,
\* always_invalidate_head = false, latest_valid_ancestor = H}, after the one
\* payload submission; the caller observes a result only after that command
\* returned; and if the command succeeded, fork choice holds its effect and
\* the result is RejectedByExecutionEngine carrying Invalid{H}.
C1_InvalidateThenReject ==
    Responded({"Invalid"}) =>
        /\ importer.fc_calls = << C1_InvalidCommand >>
        /\ Len(importer.engine_calls) = 1
        /\ Observed =>
              /\ IsSome(importer.fc_result)
              /\ IsOk(Unwrap(importer.fc_result)) =>
                    /\ Result = RejectedByExecutionEngine(
                                    [tag |-> "Invalid",
                                     latest_valid_hash |-> EngineStatus.latest_valid_hash])
                    /\ process_invalid_execution_payload(
                            fork_choice, importer.fc_calls[1]) = fork_choice

C1_Witness ==
    /\ Responded({"Invalid"})
    /\ Observed
    /\ EngineStatus.latest_valid_hash = 1
    /\ Unwrap(importer.block).parent_root = MaxRoot
    /\ Result = RejectedByExecutionEngine([tag |-> "Invalid", latest_valid_hash |-> 1])
    /\ fork_choice[MaxRoot].tag = "Invalid"
    /\ fork_choice[1].tag = "Valid"

\* C2: when the engine answers Invalid and the invalidation fails, the
\* caller observes the invalidation's error, never RejectedByExecutionEngine.
C2_InvalidationFailureSupersedes ==
    (Responded({"Invalid"}) /\ Observed /\ IsSome(importer.fc_result)
        /\ IsErr(Unwrap(importer.fc_result))) =>
        /\ Result = Err(Unwrap(importer.fc_result).err)
        /\ Result.err.kind # "RejectedByExecutionEngine"

C2_Witness ==
    /\ Responded({"Invalid"})
    /\ Observed
    /\ IsSome(importer.fc_result)
    /\ IsErr(Unwrap(importer.fc_result))
    /\ Result = Err([kind |-> "BeaconChainError"])

C3_Rejected == Responded({"InvalidTerminalBlock", "InvalidBlockHash"})

\* C3: when the engine answers InvalidTerminalBlock or InvalidBlockHash, the
\* call ends at once with RejectedByExecutionEngine carrying that status, no
\* invalidation command is issued or run, and the step leaves fork choice
\* as it was.
C3_RejectWithoutInvalidation ==
    /\ [](C3_Rejected =>
            /\ Observed
            /\ Result = RejectedByExecutionEngine(EngineStatus)
            /\ importer.fc_calls = << >>
            /\ importer.fc_result = None)
    /\ [][C3_Rejected' => fork_choice' = fork_choice]_vars

C3_Witness ==
    /\ Responded({"InvalidTerminalBlock"})
    /\ Observed
    /\ Result = RejectedByExecutionEngine(
                    [tag |-> "InvalidTerminalBlock", latest_valid_hash |-> 0])
    /\ \E r \in Roots : r <= Unwrap(importer.block).parent_root
                        /\ fork_choice[r].tag = "Optimistic"

\* C4: Valid gives Verified, Syncing and Accepted give Optimistic; in all
\* three cases the call ends at once, no invalidation command is issued or
\* run, and the result is not Irrelevant.
C4_SuccessClassification ==
    /\ Responded({"Valid"}) => (Observed /\ Result = Ok("Verified"))
    /\ Responded({"Syncing", "Accepted"}) => (Observed /\ Result = Ok("Optimistic"))
    /\ Responded({"Valid", "Syncing", "Accepted"}) =>
            /\ importer.fc_calls = << >>
            /\ importer.fc_result = None
            /\ Result # Ok("Irrelevant")
            /\ Len(importer.engine_calls) = 1

C4_Witness ==
    /\ Responded({"Accepted"})
    /\ Observed
    /\ Result = Ok("Optimistic")

C5_Attempted == IsSome(importer.block)
C5_Enabled == is_execution_enabled(Unwrap(importer.state), Unwrap(importer.block))

\* C5: for a block for which execution is not enabled, construction succeeds
\* with the status Irrelevant precomputed, the consuming call returns
\* Irrelevant, and no engine call and no invalidation command is made, with
\* or without an engine connection; and Irrelevant is returned only for such
\* a block.
C5_IrrelevantIffNotEnabled ==
    /\ (C5_Attempted /\ ~C5_Enabled) =>
            /\ importer.pc \in {"constructed", "done"}
            /\ importer.payload_verification_status = Some("Irrelevant")
            /\ importer.engine_calls = << >>
            /\ importer.fc_calls = << >>
            /\ importer.fc_result = None
            /\ Observed => Result = Ok("Irrelevant")
    /\ (C5_Attempted /\ Observed /\ Result = Ok("Irrelevant")) => ~C5_Enabled

C5_Witness ==
    /\ C5_Attempted
    /\ ~C5_Enabled
    /\ Observed
    /\ Result = Ok("Irrelevant")
    /\ ~execution_layer
    /\ Unwrap(importer.block).body_payload = Some(DefaultPayload)

\* ------------------------------------- properties: validate_merge_block
MergeCalled == IsSome(merge_call.block)
MergeBlock == Unwrap(merge_call.block)
MergePayload == Unwrap(MergeBlock.body_payload)
MergeResult == Unwrap(merge_call.result)
OverrideSet == chain_spec.terminal_block_hash # 0

\* C6: with an override terminal hash T # 0 and activation epoch A,
\* validate_merge_block of a block with a payload ends without an engine
\* call, whether or not an engine is configured: with
\* InvalidActivationEpoch{A, block epoch} if the block's epoch is below A,
\* else with InvalidTerminalBlockHash{T, parent_hash} if the payload's
\* parent_hash is not T, else with acceptance.
C6_OverrideBranch ==
    (MergeCalled /\ IsSome(MergeBlock.body_payload) /\ OverrideSet) =>
        /\ merge_call.pc = "done"
        /\ merge_call.engine_calls = << >>
        /\ MergeResult =
              IF epoch(MergeBlock.slot) < chain_spec.terminal_block_hash_activation_epoch
              THEN Err([kind |-> "InvalidActivationEpoch",
                        activation_epoch |-> chain_spec.terminal_block_hash_activation_epoch,
                        epoch |-> epoch(MergeBlock.slot)])
              ELSE IF MergePayload.parent_hash # chain_spec.terminal_block_hash
              THEN Err([kind |-> "InvalidTerminalBlockHash",
                        terminal_block_hash |-> chain_spec.terminal_block_hash,
                        payload_parent_hash |-> MergePayload.parent_hash])
              ELSE Ok(TRUE)

C6_Witness ==
    /\ MergeCalled
    /\ IsSome(MergeBlock.body_payload)
    /\ OverrideSet
    /\ ~execution_layer
    /\ MergeBlock.slot = MaxSlot
    /\ MergePayload.parent_hash # chain_spec.terminal_block_hash
    /\ MergeResult = Err([kind |-> "InvalidActivationEpoch",
                          activation_epoch |-> MaxEpoch,
                          epoch |-> epoch(MaxSlot)])

C7_EngineBranch ==
    MergeCalled /\ IsSome(MergeBlock.body_payload) /\ ~OverrideSet /\ execution_layer

\* C7: with no override and an engine configured, validate_merge_block of a
\* block with a payload asks the engine exactly once, about the payload's
\* parent_hash, and mirrors its answer: true accepts, false fails with
\* InvalidTerminalPoWBlock{parent_hash}, unknown accepts; no step of the
\* call changes fork choice or any recorded status.
C7_MirrorsEngine ==
    /\ [](C7_EngineBranch =>
            /\ merge_call.engine_calls =
                  << [op |-> "is_valid_terminal_pow_block_hash",
                      hash |-> MergePayload.parent_hash] >>
            /\ merge_call.pc \in {"await_engine", "done"}
            /\ merge_call.pc = "done" =>
                  /\ IsSome(merge_call.answer)
                  /\ Unwrap(merge_call.answer) = Ok(Some(TRUE)) => MergeResult = Ok(TRUE)
                  /\ Unwrap(merge_call.answer) = Ok(Some(FALSE)) =>
                        MergeResult = Err([kind |-> "InvalidTerminalPoWBlock",
                                           parent_hash |-> MergePayload.parent_hash])
                  /\ Unwrap(merge_call.answer) = Ok(None) => MergeResult = Ok(TRUE))
    /\ [][fork_choice' = fork_choice /\ importer' = importer]_vars

C7_Witness ==
    /\ C7_EngineBranch
    /\ merge_call.pc = "done"
    /\ Unwrap(merge_call.answer) = Ok(None)
    /\ MergeResult = Ok(TRUE)
    /\ MergePayload.parent_hash = MaxRoot
    /\ fork_choice = ForkChoiceOf(1, 1)

\* ------------------- properties: validate_execution_payload_for_gossip
GossipCalled == gossip_call.pc = "done"
GossipBlock == Unwrap(gossip_call.block)
GossipPayload == Unwrap(GossipBlock.body_payload)
GossipParent == Unwrap(gossip_call.parent_block)
GossipResult == Unwrap(gossip_call.result)
GossipStart == start_of(slot_clock, GossipBlock.slot)

\* C8: a block with a payload whose parent is Invalid fails with
\* ParentExecutionPayloadInvalid{parent_root = the parent's root} without a
\* read of the slot clock, whatever the payload and its timestamp; a block
\* without a payload is accepted whatever the parent's status.
C8_InvalidParentRejected ==
    GossipCalled =>
        /\ GossipParent.root = GossipBlock.parent_root
        /\ (IsSome(GossipBlock.body_payload)
                /\ GossipParent.execution_status.tag = "Invalid") =>
              /\ GossipResult = Err([kind |-> "ParentExecutionPayloadInvalid",
                                     parent_root |-> GossipBlock.parent_root])
              /\ gossip_call.clock_reads = << >>
        /\ ~IsSome(GossipBlock.body_payload) =>
              /\ GossipResult = Ok(TRUE)
              /\ gossip_call.clock_reads = << >>

C8_Witness ==
    /\ GossipCalled
    /\ IsSome(GossipBlock.body_payload)
    /\ GossipParent.execution_status.tag = "Invalid"
    /\ GossipPayload # DefaultPayload
    /\ IsSome(GossipStart)
    /\ GossipPayload.timestamp = as_secs(Unwrap(GossipStart))
    /\ GossipResult = Err([kind |-> "ParentExecutionPayloadInvalid",
                           parent_root |-> MaxRoot])

\* The timestamp rule: the clock is asked for the start of the block's
\* slot; without a start time the call fails with UnableToComputeTimeAtSlot,
\* with one it accepts exactly when the payload's timestamp is that time in
\* seconds and fails with InvalidPayloadTimestamp{expected, found} otherwise.
C9_TimestampRule ==
    /\ gossip_call.clock_reads = << GossipBlock.slot >>
    /\ IF IsSome(GossipStart)
       THEN /\ (GossipResult = Ok(TRUE)) <=>
                    (GossipPayload.timestamp = as_secs(Unwrap(GossipStart)))
            /\ GossipPayload.timestamp # as_secs(Unwrap(GossipStart)) =>
                    GossipResult = Err([kind |-> "InvalidPayloadTimestamp",
                                        expected |-> as_secs(Unwrap(GossipStart)),
                                        found |-> GossipPayload.timestamp])
       ELSE GossipResult = Err([kind |-> "UnableToComputeTimeAtSlot"])

C9_SkipsClock ==
    /\ GossipParent.execution_status.tag = "Irrelevant"
    /\ GossipPayload = DefaultPayload

\* C9 as stated: for a block with a payload, an Irrelevant parent and the
\* default payload are accepted without a read of the clock; a Valid or
\* Optimistic parent, or a non-default payload, puts the block under the
\* timestamp rule.
C9_Original ==
    (GossipCalled /\ IsSome(GossipBlock.body_payload)) =>
        /\ C9_SkipsClock =>
              (GossipResult = Ok(TRUE) /\ gossip_call.clock_reads = << >>)
        /\ (GossipParent.execution_status.tag \in {"Valid", "Optimistic"}
                \/ GossipPayload # DefaultPayload) => C9_TimestampRule

\* C9 (amended): for a block with a payload whose parent is not Invalid, an
\* Irrelevant parent and the default payload are accepted without a read of
\* the clock; a Valid or Optimistic parent, or a non-default payload, puts
\* the block under the timestamp rule.
C9_TimestampChecked ==
    (GossipCalled /\ IsSome(GossipBlock.body_payload)
        /\ GossipParent.execution_status.tag # "Invalid") =>
        /\ C9_SkipsClock =>
              (GossipResult = Ok(TRUE) /\ gossip_call.clock_reads = << >>)
        /\ (GossipParent.execution_status.tag \in {"Valid", "Optimistic"}
                \/ GossipPayload # DefaultPayload) => C9_TimestampRule

C9_Witness ==
    /\ GossipCalled
    /\ IsSome(GossipBlock.body_payload)
    /\ GossipParent.execution_status.tag = "Irrelevant"
    /\ GossipPayload # DefaultPayload
    /\ slot_clock.genesis_duration = 3
    /\ GossipBlock.slot = MaxSlot
    /\ GossipResult = Err([kind |-> "InvalidPayloadTimestamp",
                           expected |-> as_secs(Unwrap(GossipStart)),
                           found |-> 0])

\* ----------------------------------------------- properties: the builder
BuilderArgs == Unwrap(builder.args)
BuilderResult == Unwrap(builder.result)
\* prepare_execution_payload has run to its first suspension or its end.
BuilderPrepared == builder.handle /\ builder.pc # "spawned"

\* Before the merge, with an override whose activation epoch is not reached.
C10_OverridePending ==
    /\ BuilderPrepared
    /\ ~BuilderArgs.is_merge_transition_complete
    /\ OverrideSet
    /\ BuilderArgs.current_epoch < chain_spec.terminal_block_hash_activation_epoch

\* The default payload came back with no engine call and no lookup.
C10_DefaultAtOnce ==
    /\ builder.pc = "done"
    /\ BuilderResult = Ok(DefaultPayload)
    /\ builder.engine_calls = << >>
    /\ builder.fc_lookups = << >>
    /\ builder.store_lookups = << >>

\* C10 as stated: before the merge, with an override whose activation epoch
\* is not reached, the builder returns the default payload at once, with no
\* engine call and no fork-choice or store lookup.
C10_Original == C10_OverridePending => C10_DefaultAtOnce

\* C10 (amended): with an engine connection configured, before the merge,
\* with an override whose activation epoch is not reached, the builder
\* returns the default payload at once, with no engine call and no
\* fork-choice or store lookup.
C10_EarlyExit == (C10_OverridePending /\ execution_layer) => C10_DefaultAtOnce

C10_Witness ==
    /\ C10_OverridePending
    /\ execution_layer
    /\ C10_DefaultAtOnce
    /\ BuilderArgs.current_epoch = 1
    /\ BuilderArgs.finalized_checkpoint.root = 0

\* The get_payload requests made by the current builder invocation.
GetPayloadCalls ==
    {i \in 1 .. Len(builder.engine_calls) : builder.engine_calls[i].op = "get_payload"}

\* The engine has answered the terminal block lookup of this invocation.
TerminalPowHeard == IsSome(builder.terminal_pow)
TerminalPow == Unwrap(builder.terminal_pow)

FinalizedRoot == BuilderArgs.finalized_checkpoint.root
\* The finalized-block lookup of this invocation has run.
FinalizedLookedUp == builder.fc_lookups # << >>
FinalizedTracked == FinalizedRoot \in DOMAIN fork_choice

\* Every get_payload request of this invocation, and there is one, carries
\* `hint` as its finalized block hash.
C12_Requested(hint) ==
    /\ GetPayloadCalls # {}
    /\ \A i \in GetPayloadCalls : builder.engine_calls[i].finalized_block_hash = hint

\* The hash fork choice holds for the finalized root: none, hence zero, for
\* a block without a payload.
C12_TrackedHash ==
    IF fork_choice[FinalizedRoot].tag = "Irrelevant"
    THEN 0 ELSE fork_choice[FinalizedRoot].hash

\* The hash of the payload of the stored block, when there is one.
C12_StoreResolves ==
    /\ IsOk(store) /\ IsSome(store.val)
    /\ IsSome(Unwrap(store.val).payload_block_hash)

C12_LookupOrder ==
    /\ builder.fc_lookups = << FinalizedRoot >>
    /\ builder.store_lookups = IF FinalizedTracked THEN << >> ELSE << FinalizedRoot >>

\* C12 as stated: the finalized hint is the hash fork choice holds for the
\* finalized root when it tracks the block, otherwise the hash of the payload
\* of the block loaded from the store, and whenever neither resolves a hash
\* the zero hash is used and get_payload is still requested.
C12_Original ==
    FinalizedLookedUp =>
        /\ C12_LookupOrder
        /\ C12_Requested(IF FinalizedTracked THEN C12_TrackedHash
                         ELSE IF C12_StoreResolves
                         THEN Unwrap(Unwrap(store.val).payload_block_hash)
                         ELSE 0)

\* C12 (amended): the finalized hint is the hash fork choice holds for the
\* finalized root when it tracks the block, otherwise the hash of the payload
\* of the block loaded from the store; a tracked or stored block without a
\* payload hash gives the zero hash and get_payload is still requested, but
\* a store without the block fails the build with MissingFinalizedBlock and
\* a store read error fails it with FailedToReadFinalizedBlock, both without
\* a get_payload request.
C12_FinalizedHint ==
    FinalizedLookedUp =>
        /\ C12_LookupOrder
        /\ (FinalizedTracked => C12_Requested(C12_TrackedHash))
        /\ (~FinalizedTracked /\ C12_StoreResolves =>
                C12_Requested(Unwrap(Unwrap(store.val).payload_block_hash)))
        /\ (~FinalizedTracked /\ IsOk(store) /\ IsSome(store.val) /\ ~C12_StoreResolves =>
                C12_Requested(0))
        /\ (~FinalizedTracked /\ IsOk(store) /\ ~IsSome(store.val) =>
                /\ builder.pc = "done"
                /\ BuilderResult = Err([kind |-> "MissingFinalizedBlock",
                                        root |-> FinalizedRoot])
                /\ GetPayloadCalls = {})
        /\ (~FinalizedTracked /\ IsErr(store) =>
                /\ builder.pc = "done"
                /\ BuilderResult = Err([kind |-> "FailedToReadFinalizedBlock"])
                /\ GetPayloadCalls = {})

C12_Witness ==
    /\ FinalizedLookedUp
    /\ ~FinalizedTracked
    /\ IsOk(store) /\ IsSome(store.val) /\ ~C12_StoreResolves
    /\ C12_Requested(0)
    /\ builder.pc = "done"
    /\ IsOk(BuilderResult)

\* The current invocation found the executor unable to spawn.
C17_NotSpawned == IsSome(builder.args) /\ ~builder.handle

\* The invocation ended at once with ShuttingDown and nothing was done for it.
C17_FailedAtOnce ==
    /\ builder.pc = "done"
    /\ BuilderResult = Err([kind |-> "ShuttingDown"])
    /\ builder.engine_calls = << >>
    /\ builder.fc_lookups = << >>
    /\ builder.store_lookups = << >>

\* C17: get_execution_payload called while the executor is shutting down
\* returns ShuttingDown in the same step, with no handle, and no engine call,
\* fork-choice lookup or store lookup is ever made for that invocation: the
\* only step that follows for the builder is a new invocation.
C17_ShuttingDown ==
    /\ [](C17_NotSpawned => C17_FailedAtOnce)
    /\ [](builder.handle => builder.result # Some(Err([kind |-> "ShuttingDown"])))
    /\ [][task_executor = "shutting_down" /\ builder.pc \in {"idle", "done"}
                /\ builder' # builder
             => C17_NotSpawned' /\ C17_FailedAtOnce']_vars
    /\ [][C17_NotSpawned /\ builder' # builder
             => /\ builder'.pc \in {"spawned", "done"}
                /\ builder'.engine_calls = << >>
                /\ builder'.fc_lookups = << >>
                /\ builder'.store_lookups = << >>]_vars

C17_Witness ==
    /\ C17_NotSpawned
    /\ C17_FailedAtOnce
    /\ task_executor = "shutting_down"
    /\ execution_layer
    /\ BuilderArgs.is_merge_transition_complete

C19_NoTerminalQuery ==
    \A i \in 1 .. Len(builder.engine_calls) :
        builder.engine_calls[i].op # "get_terminal_pow_block_hash"

\* get_payload was requested exactly once, as the last engine call and with
\* the finalized-block lookup made, on `parent` and the values taken from the
\* state when get_execution_payload was called.
C19_RequestedOnce(parent) ==
    /\ GetPayloadCalls = {Len(builder.engine_calls)}
    /\ FinalizedLookedUp
    /\ LET call == builder.engine_calls[Len(builder.engine_calls)]
       IN  /\ call.parent_hash = parent
           /\ call.timestamp = BuilderArgs.timestamp
           /\ call.random = BuilderArgs.random
           /\ call.proposer_index = BuilderArgs.proposer_index

\* The invocation ended with what the engine answered to get_payload.
C19_Returned ==
    /\ IsSome(builder.built)
    /\ LET answer == Unwrap(builder.built)
       IN  BuilderResult = IF IsOk(answer) THEN Ok(answer.val)
                           ELSE Err([kind |-> "GetPayloadFailed"])

\* The invocation ended in the finalized-block lookup.
C19_LookupFailed ==
    /\ builder.pc = "done"
    /\ IsErr(BuilderResult)
    /\ BuilderResult.err.kind \in
          {"BeaconChain", "FailedToReadFinalizedBlock", "MissingFinalizedBlock"}

C19_MergeComplete == BuilderPrepared /\ BuilderArgs.is_merge_transition_complete
C19_TerminalKnown == TerminalPowHeard /\ IsOk(TerminalPow) /\ IsSome(TerminalPow.val)

\* C19 as stated: after the merge the builder builds on the block hash of the
\* latest payload header and makes no terminal block query, before the merge
\* it builds on the terminal block hash the engine reports, and in both cases
\* get_payload is requested exactly once, after the finalized-block lookup,
\* with the values taken at call time, and its answer is the result, a
\* failure as GetPayloadFailed.
C19_Original ==
    /\ C19_MergeComplete =>
          /\ C19_NoTerminalQuery
          /\ builder.pc = "done" =>
                /\ C19_RequestedOnce(BuilderArgs.latest_execution_payload_header_block_hash)
                /\ C19_Returned
    /\ C19_TerminalKnown /\ builder.pc = "done" =>
          /\ C19_RequestedOnce(Unwrap(TerminalPow.val))
          /\ C19_Returned

\* C19 (amended): with an engine connection configured, after the merge the
\* builder builds on the block hash of the latest payload header and makes no
\* terminal block query, and before the merge it builds on the terminal block
\* hash the engine reports; in both cases, unless the finalized-block lookup
\* fails, get_payload is requested exactly once, after that lookup, with the
\* values taken at call time, and its answer is the result, a failure as
\* GetPayloadFailed; when the lookup fails get_payload is not requested.
C19_ParentHash ==
    /\ Cardinality(GetPayloadCalls) <= 1
    /\ C19_MergeComplete =>
          /\ C19_NoTerminalQuery
          /\ execution_layer =>
                /\ builder.parent_hash =
                      Some(BuilderArgs.latest_execution_payload_header_block_hash)
                /\ builder.pc = "done" /\ ~C19_LookupFailed =>
                      /\ C19_RequestedOnce(
                            BuilderArgs.latest_execution_payload_header_block_hash)
                      /\ C19_Returned
                /\ C19_LookupFailed => GetPayloadCalls = {}
    /\ C19_TerminalKnown =>
          /\ execution_layer
          /\ builder.parent_hash = Some(Unwrap(TerminalPow.val))
          /\ builder.pc = "done" /\ ~C19_LookupFailed =>
                /\ C19_RequestedOnce(Unwrap(TerminalPow.val))
                /\ C19_Returned
          /\ C19_LookupFailed => GetPayloadCalls = {}

C19_Witness ==
    /\ C19_TerminalKnown
    /\ builder.pc = "done"
    /\ C19_RequestedOnce(2)
    /\ C19_Returned
    /\ IsOk(BuilderResult)
    /\ BuilderResult.val.parent_hash = 2
    /\ BuilderArgs.timestamp = MaxSlot

\* C14: when blocks are verified again and again, each through a fresh
\* PayloadNotifier, against an engine that answers Valid every time, every
\* verification returns Verified after one submission, and no step of any
\* of them changes fork choice, so that fork choice after any number of
\* verifications is what it was before the first.
C14_Idempotent ==
    /\ [](Observed =>
            /\ Result = Ok("Verified")
            /\ Len(importer.engine_calls) = 1
            /\ importer.fc_calls = << >>)
    /\ [][fork_choice' = fork_choice]_vars

C14_Witness ==
    /\ Observed
    /\ Result = Ok("Verified")
    /\ fork_choice = ForkChoiceOf(1, 1)
    /\ Unwrap(importer.block).parent_root = MaxRoot
    /\ Unwrap(importer.state).latest_execution_payload_header_block_hash # 0

\* The engine's answer to this attempt was a transport failure.
C16_Failed == IsSome(importer.response) /\ IsErr(Unwrap(importer.response))

\* C16: when the submission of the payload fails in transport the attempt
\* returns RequestFailed and fork choice is not changed, and the payload is
\* not submitted again: every consumption of a notifier makes at most one
\* submission.
C16_TransportFailure ==
    /\ [](Len(importer.engine_calls) <= 1)
    /\ [](C16_Failed =>
            /\ Observed
            /\ Result = Err([kind |-> "RequestFailed"])
            /\ Len(importer.engine_calls) = 1
            /\ importer.fc_calls = << >>)
    /\ [][C16_Failed' => fork_choice' = fork_choice]_vars

C16_Witness ==
    /\ C16_Failed
    /\ Observed
    /\ Result = Err([kind |-> "RequestFailed"])
    /\ fork_choice = ForkChoiceOf(0, 0)
    /\ Unwrap(importer.block).parent_root = MaxRoot

\* The sanity checks of PayloadNotifier::new on the attempt's block: the
\* payload is read and partially verified against the state.
C18_Sanity ==
    LET payload == execution_payload(Unwrap(importer.block))
    IN  IF IsErr(payload) THEN payload
        ELSE partially_verify_execution_payload(Unwrap(importer.state), payload.val)

\* Construction failed with the error of the checks: there is no notifier
\* and nothing was asked of the engine or of fork choice.
C18_ConstructionFailed ==
    /\ importer.pc = "done"
    /\ Result = Err(C18_Sanity.err)
    /\ importer.payload_verification_status = None
    /\ importer.engine_calls = << >>
    /\ importer.fc_calls = << >>
    /\ importer.response = None

C18_Consumed == importer.pc # "constructed"

\* C18: for an execution-enabled block the sanity checks run at
\* construction; when they fail construction fails with their error, there
\* is no notifier and the engine is never contacted; when they pass no
\* status is precomputed and the consuming call performs the engine
\* round-trip, notify_new_payload: the payload is submitted to the engine,
\* once, unless notify_new_payload finds no engine connection configured
\* and fails with NoExecutionConnection.
C18_EagerChecks ==
    (C5_Attempted /\ C5_Enabled) =>
        /\ IsErr(C18_Sanity) => C18_ConstructionFailed
        /\ IsOk(C18_Sanity) =>
              /\ importer.payload_verification_status = None
              /\ C18_Consumed /\ execution_layer => Len(importer.engine_calls) = 1
              /\ C18_Consumed /\ ~execution_layer =>
                    /\ Observed
                    /\ Result = Err([kind |-> "NoExecutionConnection"])
                    /\ importer.engine_calls = << >>

C18_Witness ==
    /\ C5_Attempted /\ C5_Enabled
    /\ IsOk(C18_Sanity)
    /\ execution_layer
    /\ Observed
    /\ Len(importer.engine_calls) = 1
    /\ Result = Ok("Optimistic")

\* notify_new_payload was entered for the attempt's block: the block is
\* execution-enabled, its notifier was constructed and has been consumed.
C15_NotifyEntered ==
    /\ C5_Attempted /\ C5_Enabled
    /\ IsOk(C18_Sanity)
    /\ C18_Consumed

\* validate_merge_block passed the override test with none configured.
C15_NonOverrideBranch ==
    MergeCalled /\ IsSome(MergeBlock.body_payload) /\ ~OverrideSet

\* C15: with no engine connection configured, notify_new_payload on an
\* execution-enabled block and validate_merge_block with no override
\* terminal hash both fail with NoExecutionConnection, with no engine call
\* made, no invalidation command issued and fork choice left as it was.
C15_NoExecutionConnection ==
    /\ [](~execution_layer /\ C15_NotifyEntered =>
            /\ Observed
            /\ Result = Err([kind |-> "NoExecutionConnection"])
            /\ importer.engine_calls = << >>
            /\ importer.fc_calls = << >>)
    /\ [](~execution_layer /\ C15_NonOverrideBranch =>
            /\ merge_call.pc = "done"
            /\ MergeResult = Err([kind |-> "NoExecutionConnection"])
            /\ merge_call.engine_calls = << >>)
    /\ [][fork_choice' = fork_choice]_vars

C15_Witness ==
    /\ ~execution_layer
    /\ C15_NotifyEntered
    /\ Result = Err([kind |-> "NoExecutionConnection"])
    /\ C15_NonOverrideBranch
    /\ MergeResult = Err([kind |-> "NoExecutionConnection"])
    /\ MergeBlock.slot = MaxSlot

\* The step is fork choice running an invalidation command.
C13_InvalidationStep == importer.pc = "await_fc" /\ importer'.pc = "fc_returned"

\* C13: over every interleaving of notifier construction and consumption,
\* validate_merge_block, gossip validation and payload production, the
\* execution status of a block of fork choice is changed by an invalidation
\* command only, and only from Valid or Optimistic to Invalid: a block that
\* is Invalid stays Invalid.
C13_StatusMonotone ==
    /\ [][\A r \in Roots :
            fork_choice'[r] # fork_choice[r] =>
                /\ C13_InvalidationStep
                /\ fork_choice[r].tag \in {"Valid", "Optimistic"}
                /\ fork_choice'[r].tag = "Invalid"]_vars
    /\ [][\A r \in Roots :
            fork_choice[r].tag = "Invalid" => fork_choice'[r].tag = "Invalid"]_vars

C13_Witness ==
    /\ fork_choice[MaxRoot].tag = "Invalid"
    /\ fork_choice[MaxRoot - 1].tag = "Invalid"
    /\ fork_choice[1].tag = "Valid"
    /\ Observed
    /\ Result = Ok("Verified")
    /\ Unwrap(importer.block).parent_root = MaxRoot
    /\ gossip_call.pc = "done"
    /\ merge_call.pc = "done"
    /\ builder.pc = "done"
    /\ IsSome(builder.built)

\* The importer holds the rejection of its block for an answer Invalid{H}.
C20_RejectionObserved ==
    /\ Observed
    /\ IsErr(Result)
    /\ Result.err.kind = "RejectedByExecutionEngine"
    /\ Result.err.status.tag = "Invalid"

\* The rejected block's parent and its ancestors down to, but excluding, the
\* block with hash H.
C20_Segment ==
    LET parent == Unwrap(importer.block).parent_root
        H == Result.err.status.latest_valid_hash
    IN  {r \in 1 .. parent :
            \E a \in 1 .. parent :
                /\ fork_choice[a].tag # "Irrelevant"
                /\ fork_choice[a].hash = H
                /\ a < r}

\* The step is a gossip validation being given its parent, or running.
C20_LookupStep == gossip_call'.pc = "looked_up" /\ gossip_call' # gossip_call
C20_CheckStep == gossip_call.pc = "looked_up" /\ gossip_call'.pc = "done"

C20_ParentInvalid ==
    Err([kind |-> "ParentExecutionPayloadInvalid",
         parent_root |-> Unwrap(gossip_call.block).parent_root])

\* C20 as stated: once an importer has observed RejectedByExecutionEngine
\* for an answer Invalid{H}, every gossip validation that runs afterwards on
\* a block with a payload whose parent lies in the invalidated segment fails
\* with ParentExecutionPayloadInvalid.
C20_Original ==
    [][(/\ C20_RejectionObserved
        /\ C20_CheckStep
        /\ IsSome(Unwrap(gossip_call.block).body_payload)
        /\ Unwrap(gossip_call.block).parent_root \in C20_Segment)
          => gossip_call'.result = Some(C20_ParentInvalid)]_vars

\* C20 (amended): once an importer has observed RejectedByExecutionEngine
\* for an answer Invalid{H}, every block of the invalidated segment is
\* Invalid in fork choice and stays so, whatever imports and validations
\* run concurrently; a gossip validation that is given its parent's record
\* from then on is given an Invalid parent, and a gossip validation of a
\* block with a payload that was given an Invalid parent fails with
\* ParentExecutionPayloadInvalid. (A validation given its parent's record
\* before the invalidation still judges by that record.)
C20_InvalidParentAfterRejection ==
    /\ [](C20_RejectionObserved =>
            \A r \in C20_Segment : fork_choice[r].tag = "Invalid")
    /\ [][\A r \in Roots :
            fork_choice[r].tag = "Invalid" => fork_choice'[r].tag = "Invalid"]_vars
    /\ [][C20_LookupStep =>
            gossip_call'.parent_block =
                get_block(fork_choice, Unwrap(gossip_call'.block).parent_root)]_vars
    /\ [][(/\ C20_RejectionObserved
           /\ C20_LookupStep
           /\ Unwrap(gossip_call'.block).parent_root \in C20_Segment)
             => Unwrap(gossip_call'.parent_block).execution_status.tag = "Invalid"]_vars
    /\ [][(/\ C20_CheckStep
           /\ IsSome(Unwrap(gossip_call.block).body_payload)
           /\ Unwrap(gossip_call.parent_block).execution_status.tag = "Invalid")
             => gossip_call'.result = Some(C20_ParentInvalid)]_vars

C20_Witness ==
    /\ C20_RejectionObserved
    /\ Result.err.status.latest_valid_hash = 1
    /\ C20_Segment = 2 .. MaxRoot
    /\ gossip_call.pc = "done"
    /\ IsSome(Unwrap(gossip_call.block).body_payload)
    /\ Unwrap(gossip_call.block).parent_root = MaxRoot - 1
    /\ Unwrap(gossip_call.parent_block).execution_status.tag = "Invalid"
    /\ gossip_call.result = Some(C20_ParentInvalid)

====
